---------------------------- MODULE Spec2Model ----------------------------
(***************************************************************************)
(* Research agent of backend_node: the LangGraph research loop             *)
(* (generateQuery -> webResearch fan-out -> reflection -> finalizeAnswer), *)
(* its state reducers, and the citation utilities (resolveUrls,            *)
(* getCitations, insertCitationMarkers).                                   *)
(*                                                                         *)
(* A string is modelled as a sequence of tokens: a token is one character  *)
(* or one opaque piece of text that no operation of the program splits.    *)
(***************************************************************************)
EXTENDS Integers, Sequences, FiniteSets, TLC

(***************************************************************************)
(* Bounds of the model.                                                    *)
(***************************************************************************)
\* longest text handed to insertCitationMarkers (besides the fixed example)
MaxTextLen == 2
\* longest citation list handed to insertCitationMarkers
MaxCitations == 2
\* longest grounding chunk list handed to resolveUrls
MaxChunks == 3
\* largest batch id handed to resolveUrls
MaxBatchId == 2
\* most queries the query writer returns
MaxInitialQueries == 2
\* most follow-up queries one reflection returns
MaxFollowUps == 1
\* largest maxResearchLoops supplied or configured
MaxLoops == 3
\* most grounding supports in a response handed to getCitations
MaxSupports == 2
\* longest list a reducer is handed, as prior value or as update
MaxUpdateLen == 2
\* longest list of chunks with pairwise different URLs
MaxDistinctChunks == 11

(***************************************************************************)
(* JavaScript values that are not data.                                    *)
(***************************************************************************)
\* Undefined stands for an absent string field. A field of another type that may
\* be absent is an option: Absent, or Some(v).
Undefined == "undefined"

Absent == <<>>

Some(v) == <<v>>

IsSome(o) == o # <<>>

ValueOf(o) == o[1]

(***************************************************************************)
(* Sequence helpers.                                                       *)
(***************************************************************************)
Range(s) == {s[i] : i \in 1..Len(s)}

Min(a, b) == IF a < b THEN a ELSE b

Max(a, b) == IF a > b THEN a ELSE b

SeqsUpTo(S, n) == UNION {[1..k -> S] : k \in 0..n}

Perms(n) == {p \in [1..n -> 1..n] : \A i, j \in 1..n : i # j => p[i] # p[j]}

Last(seq) == seq[Len(seq)]

RECURSIVE Flatten(_)
Flatten(ss) == IF ss = <<>> THEN <<>> ELSE Head(ss) \o Flatten(Tail(ss))

\* Array.prototype.slice / String.prototype.slice(begin, end): a negative index
\* counts from the end, every index is clamped to 0..length.
SliceIndex(len, i) == IF i < 0 THEN Max(len + i, 0) ELSE Min(i, len)

Slice(s, begin, end) ==
  LET b == SliceIndex(Len(s), begin)
      e == SliceIndex(Len(s), end)
  IN  IF b >= e THEN <<>> ELSE SubSeq(s, b + 1, e)

SliceFrom(s, begin) == Slice(s, begin, Len(s))

\* Number -> decimal string, as a template literal renders a non-negative integer.
DigitChars == <<"0", "1", "2", "3", "4", "5", "6", "7", "8", "9">>

RECURSIVE NumberToString(_)
NumberToString(n) ==
  IF n < 10 THEN <<DigitChars[n + 1]>>
  ELSE NumberToString(n \div 10) \o <<DigitChars[(n % 10) + 1]>>

(***************************************************************************)
(* resolveUrls                                                             *)
(***************************************************************************)
\* the literal 'https://vertexaisearch.cloud.google.com/id/', one token
prefix == "https://vertexaisearch.cloud.google.com/id/"

\* an identifier of the batch alone
ShortUrlNoIndex(id, idx) == <<prefix>> \o NumberToString(id) \o <<"-">>

\* an identifier of the position alone
ShortUrlNoId(id, idx) == <<prefix>> \o NumberToString(idx)

\* `${prefix}${id}-${idx}`
ShortUrl(id, idx) == <<prefix>> \o NumberToString(id) \o <<"-">> \o NumberToString(idx)

\* site.web?.uri || ''  (a chunk is [uri, title]; Undefined stands for an absent
\* web object or an absent field)
UrlOf(site) == IF site.uri = Undefined THEN "" ELSE site.uri

\* a step that maps a URL at every occurrence
ResolveStepOverwrite(resolvedMap, url, idx, id) ==
  IF url # ""
  THEN [u \in DOMAIN resolvedMap \cup {url} |->
          IF u = url THEN ShortUrl(id, idx) ELSE resolvedMap[u]]
  ELSE resolvedMap

\* the body of urls.forEach: url is the element, idx its 0-based position
ResolveStep(resolvedMap, url, idx, id) ==
  IF url # "" /\ url \notin DOMAIN resolvedMap
  THEN [u \in DOMAIN resolvedMap \cup {url} |->
          IF u = url THEN ShortUrl(id, idx) ELSE resolvedMap[u]]
  ELSE resolvedMap

RECURSIVE ResolveLoop(_, _, _, _)
ResolveLoop(urls, k, id, resolvedMap) ==
  IF k > Len(urls) THEN resolvedMap
  ELSE ResolveLoop(urls, k + 1, id, ResolveStep(resolvedMap, urls[k], k - 1, id))

EmptyMap == [u \in {} |-> <<>>]

resolveUrls(urlsToResolve, id) ==
  LET urls == [i \in 1..Len(urlsToResolve) |-> UrlOf(urlsToResolve[i])]
  IN  ResolveLoop(urls, 1, id, EmptyMap)

(***************************************************************************)
(* insertCitationMarkers                                                   *)
(***************************************************************************)
\* a comparator for ascending offsets
CompareAscending(a, b) ==
  IF b.endIndex # a.endIndex THEN a.endIndex - b.endIndex
  ELSE a.startIndex - b.startIndex

\* the comparator of the sort: negative when a goes before b
CompareCitations(a, b) ==
  IF b.endIndex # a.endIndex THEN b.endIndex - a.endIndex
  ELSE b.startIndex - a.startIndex

\* Array.prototype.sort is stable: an element is placed after every element
\* that does not compare greater than it.
RECURSIVE InsertSorted(_, _)
InsertSorted(sorted, x) ==
  IF sorted = <<>> THEN <<x>>
  ELSE IF CompareCitations(Head(sorted), x) <= 0
       THEN <<Head(sorted)>> \o InsertSorted(Tail(sorted), x)
       ELSE <<x>> \o sorted

RECURSIVE SortCitations(_, _)
SortCitations(list, sorted) ==
  IF list = <<>> THEN sorted
  ELSE SortCitations(Tail(list), InsertSorted(sorted, Head(list)))

\* markerToInsert += ` [${segment.label}](${segment.shortUrl})`
RECURSIVE MarkerOf(_)
MarkerOf(segments) ==
  IF segments = <<>> THEN <<>>
  ELSE <<" ", "[">> \o Head(segments).label \o <<"]", "(">>
         \o Head(segments).shortUrl \o <<")">> \o MarkerOf(Tail(segments))

\* a splice at the start offset of the citation
SpliceAtStart(modifiedText, citationInfo) ==
  Slice(modifiedText, 0, citationInfo.startIndex) \o MarkerOf(citationInfo.segments)
    \o SliceFrom(modifiedText, citationInfo.startIndex)

\* modifiedText.slice(0, endIdx) + markerToInsert + modifiedText.slice(endIdx)
Splice(modifiedText, citationInfo) ==
  Slice(modifiedText, 0, citationInfo.endIndex) \o MarkerOf(citationInfo.segments)
    \o SliceFrom(modifiedText, citationInfo.endIndex)

RECURSIVE SpliceAll(_, _)
SpliceAll(modifiedText, sortedCitations) ==
  IF sortedCitations = <<>> THEN modifiedText
  ELSE SpliceAll(Splice(modifiedText, Head(sortedCitations)), Tail(sortedCitations))

insertCitationMarkers(text, citationsList) ==
  SpliceAll(text, SortCitations(citationsList, <<>>))

(***************************************************************************)
(* getCitations                                                            *)
(*                                                                         *)
(* A response is [text, metadata]: metadata is Absent when the response    *)
(* has no candidate or the first candidate has no groundingMetadata, else  *)
(* Some([groundingChuncks, groundingSupports]), each an option of a list.  *)
(* A support is [segment, groundingChunkIndices]: segment is an option of  *)
(* [startIndex, endIndex], both options of a number; the indices are an    *)
(* option of a list.  A chunk is [uri, title]; title is an option of a     *)
(* token sequence in which "." is a token of its own.                      *)
(***************************************************************************)
\* the position of the last "." of a title, 0 if there is none
LastDot(title) ==
  LET dots == {i \in 1..Len(title) : title[i] = "."}
  IN  IF dots = {} THEN 0 ELSE CHOOSE i \in dots : \A j \in dots : j <= i

\* chunk.web.title?.split('.').slice(0, -1).join('.') || chunk.web.title || 'Source'
LabelOf(title) ==
  IF ~IsSome(title) THEN <<"Source">>
  ELSE LET t == ValueOf(title)
           stem == IF LastDot(t) = 0 THEN <<>> ELSE SubSeq(t, 1, LastDot(t) - 1)
       IN  IF stem # <<>> THEN stem
           ELSE IF t # <<>> THEN t
           ELSE <<"Source">>

\* candidate.groundingMetadata.groundingChuncks?.[ind]
ChunkAt(metadata, ind) ==
  IF IsSome(metadata.groundingChuncks)
     /\ ind + 1 \in 1..Len(ValueOf(metadata.groundingChuncks))
  THEN Some(ValueOf(metadata.groundingChuncks)[ind + 1])
  ELSE Absent

\* the body of the loop over support.groundingChunkIndices
RECURSIVE CitationSegments(_, _, _)
CitationSegments(metadata, indices, resolvedUrlsMap) ==
  IF indices = <<>> THEN <<>>
  ELSE LET chunk == ChunkAt(metadata, Head(indices))
           rest == CitationSegments(metadata, Tail(indices), resolvedUrlsMap)
       IN  IF ~IsSome(chunk) \/ UrlOf(ValueOf(chunk)) = "" THEN rest
           ELSE IF ValueOf(chunk).uri \in DOMAIN resolvedUrlsMap
                THEN <<[label |-> LabelOf(ValueOf(chunk).title),
                        shortUrl |-> resolvedUrlsMap[ValueOf(chunk).uri],
                        value |-> ValueOf(chunk).uri]>> \o rest
                ELSE rest

\* a loop body that skips a support without start offset
CitationOfSupportNeedsStart(metadata, support, resolvedUrlsMap) ==
  IF ~IsSome(support.segment) THEN <<>>
  ELSE LET segment == ValueOf(support.segment)
           segments == IF IsSome(support.groundingChunkIndices)
                       THEN CitationSegments(metadata,
                              ValueOf(support.groundingChunkIndices), resolvedUrlsMap)
                       ELSE <<>>
       IN  IF ~IsSome(segment.startIndex) \/ ~IsSome(segment.endIndex) THEN <<>>
           ELSE IF segments # <<>>
                THEN <<[startIndex |-> ValueOf(segment.startIndex),
                        endIndex |-> ValueOf(segment.endIndex),
                        segments |-> segments]>>
                ELSE <<>>

\* a loop body that keeps a citation without sources
CitationOfSupportKeepsEmpty(metadata, support, resolvedUrlsMap) ==
  IF ~IsSome(support.segment) THEN <<>>
  ELSE LET segment == ValueOf(support.segment)
           startIndex == IF IsSome(segment.startIndex)
                         THEN ValueOf(segment.startIndex) ELSE 0
           segments == IF IsSome(support.groundingChunkIndices)
                       THEN CitationSegments(metadata,
                              ValueOf(support.groundingChunkIndices), resolvedUrlsMap)
                       ELSE <<>>
       IN  IF ~IsSome(segment.endIndex) THEN <<>>
           ELSE <<[startIndex |-> startIndex,
                   endIndex |-> ValueOf(segment.endIndex),
                   segments |-> segments]>>

\* the body of the loop over groundingSupports: the citations one support adds
CitationOfSupport(metadata, support, resolvedUrlsMap) ==
  IF ~IsSome(support.segment) THEN <<>>
  ELSE LET segment == ValueOf(support.segment)
           startIndex == IF IsSome(segment.startIndex)
                         THEN ValueOf(segment.startIndex) ELSE 0
           segments == IF IsSome(support.groundingChunkIndices)
                       THEN CitationSegments(metadata,
                              ValueOf(support.groundingChunkIndices), resolvedUrlsMap)
                       ELSE <<>>
       IN  IF ~IsSome(segment.endIndex) THEN <<>>
           ELSE IF segments # <<>>
                THEN <<[startIndex |-> startIndex,
                        endIndex |-> ValueOf(segment.endIndex),
                        segments |-> segments]>>
                ELSE <<>>

RECURSIVE CitationsOfSupports(_, _, _)
CitationsOfSupports(metadata, supports, resolvedUrlsMap) ==
  IF supports = <<>> THEN <<>>
  ELSE CitationOfSupport(metadata, Head(supports), resolvedUrlsMap)
         \o CitationsOfSupports(metadata, Tail(supports), resolvedUrlsMap)

getCitations(response, resolvedUrlsMap) ==
  IF ~IsSome(response.metadata) THEN <<>>
  ELSE IF ~IsSome(ValueOf(response.metadata).groundingSupports) THEN <<>>
  ELSE CitationsOfSupports(ValueOf(response.metadata),
         ValueOf(ValueOf(response.metadata).groundingSupports), resolvedUrlsMap)

(***************************************************************************)
(* State reducers.                                                         *)
(*                                                                         *)
(* The update of an accumulate field is a JavaScript value with its type:  *)
(* [t |-> "undefined"], [t |-> "array", v |-> list], or a single value     *)
(* [t |-> "string" | "number" | "boolean" | "null" | "object", v |-> ...]. *)
(* The update of an overwrite field is an option: Absent is undefined.     *)
(***************************************************************************)
JsUndefined == [t |-> "undefined"]

JsArray(list) == [t |-> "array", v |-> list]

\* !update is false
Truthy(x) ==
  CASE x.t = "undefined" -> FALSE
    [] x.t = "null" -> FALSE
    [] x.t = "string" -> x.v # ""
    [] x.t = "number" -> x.v # 0
    [] x.t = "boolean" -> x.v
    [] OTHER -> TRUE

\* a reducer that keeps the update alone
arrayReplace(current, update) ==
  IF ~Truthy(update) THEN current
  ELSE IF update.t = "array" THEN update.v
  ELSE <<update.v>>

\* a reducer that puts the update before the entries held
arrayPrepend(current, update) ==
  IF ~Truthy(update) THEN current
  ELSE IF update.t = "array" THEN update.v \o current
  ELSE <<update.v>> \o current

arrayAccumulator(current, update) ==
  IF ~Truthy(update) THEN current
  ELSE IF update.t = "array" THEN current \o update.v
  ELSE Append(current, update.v)

messagesReducer(current, update) ==
  IF ~Truthy(update) THEN current
  ELSE IF update.t = "array" THEN current \o update.v
  ELSE Append(current, update.v)

\* a reducer that never takes the update
simpleValueKeepsCurrent(current, update) == current

simpleValue(current, update) == IF IsSome(update) THEN ValueOf(update) ELSE current

(***************************************************************************)
(* GraphState: the channels of the graph, their reducers and defaults.     *)
(* maxResearchLoops is an option of a number, Absent standing for null.    *)
(* The channels initialSearchQueryCount, reasoningModel and knowledgeGap   *)
(* only feed the prompts and are left out.                                 *)
(***************************************************************************)
DefaultMaxResearchLoops == 2

DefaultState ==
  [messages |-> <<>>,
   searchQuery |-> <<>>,
   webResearchResult |-> <<>>,
   sourcesGathered |-> <<>>,
   maxResearchLoops |-> Some(DefaultMaxResearchLoops),
   researchLoopCount |-> 0,
   queryList |-> <<>>,
   isSufficient |-> FALSE,
   followUpQueries |-> <<>>,
   numberOfRanQueries |-> 0]

\* a partial update that sets no field
NoUpdate ==
  [messages |-> JsUndefined,
   searchQuery |-> JsUndefined,
   webResearchResult |-> JsUndefined,
   sourcesGathered |-> JsUndefined,
   maxResearchLoops |-> Absent,
   researchLoopCount |-> Absent,
   queryList |-> Absent,
   isSufficient |-> Absent,
   followUpQueries |-> JsUndefined,
   numberOfRanQueries |-> Absent]

\* the merge of one partial update into the state, field by field
ApplyUpdate(state, update) ==
  [messages |-> messagesReducer(state.messages, update.messages),
   searchQuery |-> arrayAccumulator(state.searchQuery, update.searchQuery),
   webResearchResult |-> arrayAccumulator(state.webResearchResult, update.webResearchResult),
   sourcesGathered |-> arrayAccumulator(state.sourcesGathered, update.sourcesGathered),
   maxResearchLoops |-> simpleValue(state.maxResearchLoops, update.maxResearchLoops),
   researchLoopCount |-> simpleValue(state.researchLoopCount, update.researchLoopCount),
   queryList |-> simpleValue(state.queryList, update.queryList),
   isSufficient |-> simpleValue(state.isSufficient, update.isSufficient),
   followUpQueries |-> arrayAccumulator(state.followUpQueries, update.followUpQueries),
   numberOfRanQueries |-> simpleValue(state.numberOfRanQueries, update.numberOfRanQueries)]

RECURSIVE ApplyUpdates(_, _)
ApplyUpdates(state, updates) ==
  IF updates = <<>> THEN state
  ELSE ApplyUpdates(ApplyUpdate(state, Head(updates)), Tail(updates))

(***************************************************************************)
(* Nodes and routing functions.                                            *)
(***************************************************************************)
\* generateQuery: llm is the structured output [query, rationale]
generateQuery(state, llm) ==
  [NoUpdate EXCEPT
     !.queryList = Some([i \in 1..Len(llm.query) |->
                           [query |-> llm.query[i], rationale |-> llm.rationale]])]

\* a Send object
Send(node, searchQuery, id) ==
  [node |-> node, args |-> [searchQuery |-> searchQuery, id |-> id]]

continueToWebResearch(state) ==
  [i \in 1..Len(state.queryList) |->
     Send("webResearch", state.queryList[i].query, i - 1)]

\* a webResearch that reports the first query of the shared query list
webResearchSharedQuery(state, search) ==
  [NoUpdate EXCEPT
     !.sourcesGathered = JsArray(<<>>),
     !.searchQuery = JsArray(<<state.queryList[1].query>>),
     !.webResearchResult = JsArray(<<<<"r">>>>)]

\* a webResearch that does not report its query
webResearchNoQuery(state, search) ==
  [NoUpdate EXCEPT
     !.sourcesGathered = JsArray(<<>>),
     !.webResearchResult = JsArray(<<<<"r">>>>)]

\* a webResearch that reports no result when its search fails
webResearchSilentFailure(state, search) ==
  IF search.ok
  THEN [NoUpdate EXCEPT
          !.sourcesGathered = JsArray(<<>>),
          !.searchQuery = JsArray(<<state.searchQuery>>),
          !.webResearchResult = JsArray(<<search.response.text>>)]
  ELSE [NoUpdate EXCEPT
          !.sourcesGathered = JsArray(<<>>),
          !.searchQuery = JsArray(<<state.searchQuery>>),
          !.webResearchResult = JsArray(<<>>)]

\* what a webResearch task receives: the state it was dispatched from, with the
\* arguments of its Send (searchQuery, id) laid over it
TaskInput(state, args) ==
  [f \in DOMAIN state \cup {"id"} |->
     IF f = "searchQuery" THEN args.searchQuery
     ELSE IF f = "id" THEN args.id
     ELSE state[f]]

\* webResearch: search is the outcome of the grounded search call,
\* [ok |-> TRUE, response] or [ok |-> FALSE, message]
webResearch(state, search) ==
  IF search.ok
  THEN LET response == search.response
           groundingChunks ==
             IF IsSome(response.metadata)
                /\ IsSome(ValueOf(response.metadata).groundingChuncks)
             THEN ValueOf(ValueOf(response.metadata).groundingChuncks)
             ELSE <<>>
           resolvedUrls == resolveUrls(groundingChunks, state.id)
           citations == getCitations(response, resolvedUrls)
           modifiedText == insertCitationMarkers(response.text, citations)
       IN  [NoUpdate EXCEPT
              !.sourcesGathered =
                 JsArray(Flatten([i \in 1..Len(citations) |-> citations[i].segments])),
              !.searchQuery = JsArray(<<state.searchQuery>>),
              !.webResearchResult = JsArray(<<modifiedText>>)]
  ELSE [NoUpdate EXCEPT
          !.sourcesGathered = JsArray(<<>>),
          !.searchQuery = JsArray(<<state.searchQuery>>),
          !.webResearchResult =
             JsArray(<<<<"Research for \"", state.searchQuery,
                         "\" - No results found due to error: ", search.message>>>>)]

\* a reflection that sets researchLoopCount to 1 whatever it was
reflectionRestartsCount(state, llm) ==
  [NoUpdate EXCEPT
     !.isSufficient = Some(llm.isSufficient),
     !.followUpQueries =
        JsArray(IF IsSome(llm.followUpQueries) THEN ValueOf(llm.followUpQueries) ELSE <<>>),
     !.researchLoopCount = Some(1),
     !.numberOfRanQueries = Some(Len(state.searchQuery))]

\* a reflection that counts every loop twice
reflectionCountsTwice(state, llm) ==
  [NoUpdate EXCEPT
     !.isSufficient = Some(llm.isSufficient),
     !.followUpQueries =
        JsArray(IF IsSome(llm.followUpQueries) THEN ValueOf(llm.followUpQueries) ELSE <<>>),
     !.researchLoopCount = Some(state.researchLoopCount + 2),
     !.numberOfRanQueries = Some(Len(state.searchQuery))]

\* reflection: llm is the structured output [isSufficient, followUpQueries], the
\* latter an option of a list
reflection(state, llm) ==
  [NoUpdate EXCEPT
     !.isSufficient = Some(llm.isSufficient),
     !.followUpQueries =
        JsArray(IF IsSome(llm.followUpQueries) THEN ValueOf(llm.followUpQueries) ELSE <<>>),
     !.researchLoopCount = Some(state.researchLoopCount + 1),
     !.numberOfRanQueries = Some(Len(state.searchQuery))]

\* a budget read from the configuration alone
LoopBudgetConfigured(state, configuration) == configuration.maxResearchLoops

\* the loop budget: state.maxResearchLoops ?? configuration.maxResearchLoops
LoopBudget(state, configuration) ==
  IF IsSome(state.maxResearchLoops) THEN ValueOf(state.maxResearchLoops)
  ELSE configuration.maxResearchLoops

\* the test of evaluateResearch with the budget off by one
ShouldFinalizeLate(state, configuration) ==
  state.isSufficient \/ state.researchLoopCount > LoopBudget(state, configuration)

\* a test that looks at the budget alone
ShouldFinalizeBudgetOnly(state, configuration) ==
  state.researchLoopCount >= LoopBudget(state, configuration)

\* state.isSufficient || state.researchLoopCount >= maxResearchLoops
ShouldFinalize(state, configuration) ==
  state.isSufficient \/ state.researchLoopCount >= LoopBudget(state, configuration)

\* a routing function that asks for no further research
evaluateResearchNoSends(state, configuration) ==
  IF ShouldFinalize(state, configuration)
  THEN [kind |-> "node", node |-> "finalizeAnswer", sends |-> <<>>]
  ELSE [kind |-> "sends", node |-> "", sends |-> <<>>]

\* a routing function that numbers every fan-out from 0
evaluateResearchFromZero(state, configuration) ==
  IF ShouldFinalize(state, configuration)
  THEN [kind |-> "node", node |-> "finalizeAnswer", sends |-> <<>>]
  ELSE [kind |-> "sends", node |-> "",
        sends |-> [i \in 1..Len(state.followUpQueries) |->
                     Send("webResearch", state.followUpQueries[i], i - 1)]]

\* the result is a node name, [node], or a list of Send objects, [sends]
evaluateResearch(state, configuration) ==
  IF ShouldFinalize(state, configuration)
  THEN [kind |-> "node", node |-> "finalizeAnswer", sends |-> <<>>]
  ELSE [kind |-> "sends", node |-> "",
        sends |-> [i \in 1..Len(state.followUpQueries) |->
                     Send("webResearch", state.followUpQueries[i],
                          state.numberOfRanQueries + (i - 1))]]

\* finalContent.includes(shortUrl)
Includes(text, pattern) ==
  \E i \in 0..(Len(text) - Len(pattern)) :
    SubSeq(text, i + 1, i + Len(pattern)) = pattern

\* finalContent.replace(new RegExp(escaped shortUrl, 'g'), value): every
\* occurrence, left to right, none overlapping an earlier one
RECURSIVE ReplaceAll(_, _, _)
ReplaceAll(text, pattern, replacement) ==
  IF Len(text) < Len(pattern) \/ pattern = <<>> THEN text
  ELSE IF SubSeq(text, 1, Len(pattern)) = pattern
       THEN replacement \o ReplaceAll(SubSeq(text, Len(pattern) + 1, Len(text)),
                                      pattern, replacement)
       ELSE <<Head(text)>> \o ReplaceAll(Tail(text), pattern, replacement)

\* a URL whose query string holds the characters $&
MatchPatternUrl == "http://shop/?cur=$&id=1"

\* the text String.prototype.replace inserts for the replacement string value
\* where it has matched the text matched: the pattern $& of a replacement
\* string stands for the matched text; MatchPatternUrl is the one URL here that
\* holds a $
Expand(value, matched) ==
  IF value = MatchPatternUrl
  THEN <<"http://shop/?cur=">> \o matched \o <<"id=1">>
  ELSE <<value>>

\* the loop of finalizeAnswer over state.sourcesGathered; acc is
\* [finalContent, uniqueSources, seenUrls]
RECURSIVE FinalizeLoop(_, _)
FinalizeLoop(sources, acc) ==
  IF sources = <<>> THEN acc
  ELSE LET source == Head(sources)
       IN  IF source.shortUrl # <<>> /\ Includes(acc.finalContent, source.shortUrl)
           THEN FinalizeLoop(Tail(sources),
                  [finalContent |->
                     ReplaceAll(acc.finalContent, source.shortUrl,
                                Expand(source.value, source.shortUrl)),
                   uniqueSources |->
                     IF source.value \notin acc.seenUrls
                     THEN Append(acc.uniqueSources, source) ELSE acc.uniqueSources,
                   seenUrls |-> acc.seenUrls \cup {source.value}])
           ELSE FinalizeLoop(Tail(sources), acc)

AIMessage(content) == [type |-> "ai", content |-> content]

HumanMessage(content) == [type |-> "human", content |-> content]

\* finalizeAnswer: content is the text of the answer the model returned
finalizeAnswer(state, content) ==
  LET done == FinalizeLoop(state.sourcesGathered,
                [finalContent |-> content, uniqueSources |-> <<>>, seenUrls |-> {}])
  IN  [NoUpdate EXCEPT
         !.messages = JsArray(<<AIMessage(done.finalContent)>>),
         !.sourcesGathered = JsArray(done.uniqueSources)]

(***************************************************************************)
(* State.                                                                  *)
(*   m*: one call of insertCitationMarkers and calls on reorderings of the *)
(*       same citation list                                                *)
(*   u*: one call of resolveUrls                                           *)
(*   g*: one call of getCitations                                          *)
(*   r*: one call of a state reducer                                       *)
(*   the run of the graph:                                                 *)
(*   pc              the node the executor runs next, or how the run ended *)
(*   state           the shared state of the run                           *)
(*   configuration   the Configuration of the run                          *)
(*   snapshot        the state the current fan-out group was dispatched on *)
(*   tasks           the Send objects of the current fan-out group         *)
(*   taskResult      per task, the update it returned, Absent while it runs*)
(*   completionOrder the tasks of the group in the order they completed    *)
(*   lastRoute       the result of the last routing function               *)
(*   nodeLog         the nodes executed so far, in order                   *)
(*   emitted         every Send object emitted so far                      *)
(*   error           the message of the error that ended the run           *)
(*   the caller of the run:                                                *)
(*   caller          "invoke" or "stream" for the routes /agent/invoke and *)
(*                   /agent/stream, "graph" for a direct call of the graph *)
(*   res             the response of /agent/invoke: Absent until it is sent*)
(*   events          the server-sent events /agent/stream has written      *)
(*   responded       the route has ended its response                      *)
(*   log             the errors the route has logged                       *)
(***************************************************************************)
VARIABLES mText, mList, mApplied, mOut, mRef, mPhase,
          uChunks, uId, uMap, uDone,
          gResponse, gMap, gCitations, gDone,
          rReducer, rKind, rCurrent, rUpdate, rOut, rDone,
          caller, res, events, responded, log,
          pc, state, configuration, snapshot, tasks, taskResult,
          completionOrder, lastRoute, nodeLog, emitted, error

mVars == <<mText, mList, mApplied, mOut, mRef, mPhase>>

uVars == <<uChunks, uId, uMap, uDone>>

gVars == <<gResponse, gMap, gCitations, gDone>>

rVars == <<rReducer, rKind, rCurrent, rUpdate, rOut, rDone>>

hVars == <<caller, res, events, responded, log>>

runVars == <<pc, state, configuration, snapshot, tasks, taskResult,
             completionOrder, lastRoute, nodeLog, emitted, error>>

vars == <<mVars, uVars, gVars, rVars, runVars, hVars>>

(***************************************************************************)
(* Inputs of insertCitationMarkers.                                        *)
(***************************************************************************)
Chars == <<"a", "b", "c", "d", "e", "f">>

TextOfLen(n) == SubSeq(Chars, 1, n)

SourceX == [label |-> <<"x">>, shortUrl |-> <<"sx">>, value |-> "http://x"]

SourceY == [label |-> <<"y">>, shortUrl |-> <<"sy">>, value |-> "http://y"]

SegmentLists == {<<SourceX>>, <<SourceY, SourceX>>}

\* citations over a text of length n: end offsets 0..n and one past the end,
\* start offsets up to the end offset
CitationsOver(n) ==
  {c \in [startIndex : 0..(n + 1), endIndex : 0..(n + 1), segments : SegmentLists] :
     c.startIndex <= c.endIndex}

\* "The sky is blue."
SkyText ==
  <<"T", "h", "e", " ", "s", "k", "y", " ", "i", "s", " ", "b", "l", "u", "e", ".">>

NasaCitation ==
  [startIndex |-> 4, endIndex |-> 12,
   segments |-> <<[label |-> <<"N", "A", "S", "A">>, shortUrl |-> <<"s", "1">>,
                   value |-> "http://nasa.gov"]>>]

MarkersInit ==
  /\ \/ \E n \in 0..MaxTextLen, k \in 0..MaxCitations :
          /\ mText = TextOfLen(n)
          /\ mList \in [1..k -> CitationsOver(n)]
     \/ /\ mText = SkyText
        /\ mList = <<NasaCitation>>
  /\ mApplied = <<>>
  /\ mOut = <<>>
  /\ mRef = <<>>
  /\ mPhase = "input"

MarkersIdle ==
  /\ mText = <<>> /\ mList = <<>> /\ mApplied = <<>>
  /\ mOut = <<>> /\ mRef = <<>> /\ mPhase = "input"

\* the call on the list as given
InsertMarkers ==
  /\ mPhase = "input"
  /\ mApplied' = mList
  /\ mOut' = insertCitationMarkers(mText, mList)
  /\ mRef' = mOut'
  /\ mPhase' = "applied"
  /\ UNCHANGED <<mText, mList, uVars, gVars, rVars, runVars, hVars>>

\* a call on a reordering of the same list
InsertMarkersReordered ==
  /\ mPhase = "applied"
  /\ \E p \in Perms(Len(mList)) :
       /\ mApplied' = [i \in 1..Len(mList) |-> mList[p[i]]]
       /\ mOut' = insertCitationMarkers(mText, mApplied')
  /\ UNCHANGED <<mText, mList, mRef, mPhase, uVars, gVars, rVars, runVars, hVars>>

MarkersNext == InsertMarkers \/ InsertMarkersReordered

(***************************************************************************)
(* Inputs of resolveUrls.                                                  *)
(***************************************************************************)
Uris == {"http://a", "http://b"}

DefaultTitle == Some(<<"a", ".", "com">>)

ChunkSet == {[uri |-> u, title |-> DefaultTitle] : u \in Uris \cup {"", Undefined}}

\* URLs of the pages a search is grounded on
UrlNames ==
  <<"http://u0", "http://u1", "http://u2", "http://u3", "http://u4", "http://u5",
    "http://u6", "http://u7", "http://u8", "http://u9", "http://u10", "http://u11",
    "http://u12", "http://u13", "http://u14", "http://u15">>

\* a list of n chunks with pairwise different URLs
DistinctChunks(n) == [i \in 1..n |-> [uri |-> UrlNames[i], title |-> Absent]]

UrlsInit ==
  /\ \/ uChunks \in SeqsUpTo(ChunkSet, MaxChunks)
     \/ \E n \in 0..MaxDistinctChunks : uChunks = DistinctChunks(n)
  /\ uId \in 0..MaxBatchId
  /\ uMap = EmptyMap
  /\ uDone = FALSE

UrlsIdle ==
  /\ uChunks = <<>> /\ uId = 0 /\ uMap = EmptyMap /\ uDone = FALSE

ResolveUrls ==
  /\ ~uDone
  /\ uMap' = resolveUrls(uChunks, uId)
  /\ uDone' = TRUE
  /\ UNCHANGED <<uChunks, uId, mVars, gVars, rVars, runVars, hVars>>

UrlsNext == ResolveUrls

(***************************************************************************)
(* The run of the graph: the executor's steps.                             *)
(***************************************************************************)
\* the queries the query writer returns, in its order
Queries == <<"q1", "q2", "q3", "q4">>

\* the follow-up queries the k-th reflection of a run returns, in its order
FollowUpNames ==
  <<<<"f1a", "f1b", "f1c">>, <<"f2a", "f2b", "f2c">>, <<"f3a", "f3b", "f3c">>,
    <<"f4a", "f4b", "f4c">>, <<"f5a", "f5b", "f5c">>>>

FollowUps(k) == FollowUpNames[k]

ErrorMessages == {"timeout", "quota"}

\* what the query-writer model may return
QueryOutputs ==
  {[query |-> SubSeq(Queries, 1, n), rationale |-> "why"] : n \in 0..MaxInitialQueries}

\* what the reflection model may return
ReflectionOutputs(k) ==
  {[isSufficient |-> b, followUpQueries |-> f] :
     b \in BOOLEAN,
     f \in {Absent} \cup {Some(SubSeq(FollowUps(k), 1, n)) : n \in 0..MaxFollowUps}}

ChunkA == [uri |-> "http://a", title |-> Some(<<"a", ".", "com">>)]

ChunkB == [uri |-> "http://b", title |-> Absent]

SupportOf(start, end, indices) ==
  [segment |-> Some([startIndex |-> start, endIndex |-> end]),
   groundingChunkIndices |-> Some(indices)]

\* what the grounded search may return
SearchResponses ==
  {[text |-> <<"r">>, metadata |-> Absent],
   [text |-> <<"r">>,
    metadata |-> Some([groundingChuncks |-> Some(<<ChunkA>>),
                       groundingSupports |-> Some(<<SupportOf(Some(0), Some(1), <<0>>)>>)])],
   [text |-> <<"r">>,
    metadata |-> Some([groundingChuncks |-> Some(<<ChunkA, ChunkB>>),
                       groundingSupports |-> Some(<<SupportOf(Absent, Some(1), <<1>>)>>)])]}

SearchOutcomes ==
  {[ok |-> TRUE, response |-> r] : r \in SearchResponses}
  \cup {[ok |-> FALSE, message |-> "timeout"]}

\* what the answer model may return: a text that cites none, one or all of the
\* short URLs gathered
AnswerContents(sources) ==
  {<<"answer">>}
  \cup {<<"answer", " ">> \o sources[i].shortUrl \o <<".">> : i \in 1..Len(sources)}
  \cup {<<"answer">> \o Flatten([i \in 1..Len(sources) |-> <<" ">> \o sources[i].shortUrl])}

\* the initial state of a run: the input of the caller merged into the defaults.
\* maxLoops is what the caller supplies as maxResearchLoops: Absent (nothing),
\* Some(Absent) (null) or Some(Some(n)).
InitialState(maxLoops) ==
  ApplyUpdate(DefaultState,
    [NoUpdate EXCEPT !.messages = JsArray(<<HumanMessage(<<"topic">>)>>),
                     !.maxResearchLoops = maxLoops])

\* <<maxResearchLoops supplied by the caller, configured maxResearchLoops>>
RunInputs ==
  {<<Absent, c>> : c \in {1, MaxLoops}}
  \cup {<<Some(Absent), c>> : c \in {1, DefaultMaxResearchLoops}}
  \cup {<<Some(Some(n)), DefaultMaxResearchLoops>> : n \in 0..MaxLoops}

\* the routes build the initial state from the input alone and never supply
\* maxResearchLoops; a direct caller of the graph may
RunInit ==
  /\ \E in \in RunInputs :
       /\ state = InitialState(in[1])
       /\ configuration = [maxResearchLoops |-> in[2]]
       /\ caller \in (IF in[1] = Absent THEN {"invoke", "stream"} ELSE {"graph"})
  /\ res = Absent
  /\ events = <<>>
  /\ responded = FALSE
  /\ log = <<>>
  /\ pc = "generateQuery"
  /\ snapshot = DefaultState
  /\ tasks = <<>>
  /\ taskResult = <<>>
  /\ completionOrder = <<>>
  /\ lastRoute = "none"
  /\ nodeLog = <<>>
  /\ emitted = <<>>
  /\ error = ""

RunIdle ==
  /\ caller = "graph" /\ res = Absent /\ events = <<>>
  /\ responded = FALSE /\ log = <<>>
  /\ state = DefaultState
  /\ configuration = [maxResearchLoops |-> DefaultMaxResearchLoops]
  /\ pc = "idle"
  /\ snapshot = DefaultState
  /\ tasks = <<>>
  /\ taskResult = <<>>
  /\ completionOrder = <<>>
  /\ lastRoute = "none"
  /\ nodeLog = <<>>
  /\ emitted = <<>>
  /\ error = ""

\* an executor that runs finalizeAnswer when a routing function returns no Send
DispatchOrFinalize(newState, sends) ==
  /\ lastRoute' = "webResearch"
  /\ emitted' = emitted \o sends
  /\ snapshot' = newState
  /\ tasks' = sends
  /\ taskResult' = [i \in 1..Len(sends) |-> Absent]
  /\ completionOrder' = <<>>
  /\ pc' = IF sends = <<>> THEN "finalizeAnswer" ELSE "webResearch"

\* the executor takes the result of a routing function that returned Send
\* objects: it starts one task per Send on a snapshot of newState; with no Send
\* no node runs and the run is over
Dispatch(newState, sends) ==
  /\ lastRoute' = "webResearch"
  /\ emitted' = emitted \o sends
  /\ snapshot' = newState
  /\ tasks' = sends
  /\ taskResult' = [i \in 1..Len(sends) |-> Absent]
  /\ completionOrder' = <<>>
  /\ pc' = IF sends = <<>> THEN "stalled" ELSE "webResearch"

\* graph.stream yields one chunk per completed node, which /agent/stream writes
\* as a server-sent event
Emit(node) ==
  /\ events' = IF caller = "stream"
               THEN Append(events, [kind |-> "chunk", node |-> node]) ELSE events
  /\ UNCHANGED <<caller, res, responded, log>>

\* an executor that merges what the completed tasks of the group returned
\* before it gives up
AbortAfterMerge(node, message) ==
  /\ pc' = "failed"
  /\ error' = message
  /\ nodeLog' = Append(nodeLog, node)
  /\ state' = ApplyUpdates(state,
                [k \in 1..Len(completionOrder) |-> ValueOf(taskResult[completionOrder[k]])])
  /\ UNCHANGED <<configuration, snapshot, tasks, taskResult,
                 completionOrder, lastRoute, emitted, mVars, uVars, gVars, rVars, hVars>>

\* a node threw: the run is over
Abort(node, message) ==
  /\ pc' = "failed"
  /\ error' = message
  /\ nodeLog' = Append(nodeLog, node)
  /\ UNCHANGED <<state, configuration, snapshot, tasks, taskResult,
                 completionOrder, lastRoute, emitted, mVars, uVars, gVars, rVars, hVars>>

GenerateQuery ==
  /\ pc = "generateQuery"
  /\ \E llm \in QueryOutputs :
       /\ state' = ApplyUpdate(state, generateQuery(state, llm))
       /\ Dispatch(state', continueToWebResearch(state'))
  /\ nodeLog' = Append(nodeLog, "generateQuery")
  /\ Emit("generateQuery")
  /\ UNCHANGED <<configuration, error, mVars, uVars, gVars, rVars>>

GenerateQueryThrows ==
  /\ pc = "generateQuery"
  /\ \E message \in ErrorMessages : Abort("generateQuery", message)

\* one task of the fan-out group completes; its update waits for the join
WebResearch(i) ==
  /\ pc = "webResearch"
  /\ ~IsSome(taskResult[i])
  /\ \E search \in SearchOutcomes :
       taskResult' =
         [taskResult EXCEPT ![i] = Some(webResearch(TaskInput(snapshot, tasks[i].args), search))]
  /\ completionOrder' = Append(completionOrder, i)
  /\ nodeLog' = Append(nodeLog, "webResearch")
  /\ Emit("webResearch")
  /\ UNCHANGED <<pc, state, configuration, snapshot, tasks, lastRoute, emitted, error,
                 mVars, uVars, gVars, rVars>>

\* one task of the fan-out group throws before its guarded search call (the
\* Configuration it builds first throws when GOOGLE_API_KEY is not set)
WebResearchThrows(i) ==
  /\ pc = "webResearch"
  /\ ~IsSome(taskResult[i])
  /\ \E message \in ErrorMessages : Abort("webResearch", message)

\* a join that does not wait for the whole group
JoinEarly ==
  /\ pc = "webResearch"
  /\ completionOrder # <<>>
  /\ state' = ApplyUpdates(state,
                [k \in 1..Len(completionOrder) |-> ValueOf(taskResult[completionOrder[k]])])
  /\ pc' = "reflection"
  /\ UNCHANGED <<configuration, snapshot, tasks, taskResult, completionOrder,
                 lastRoute, nodeLog, emitted, error, mVars, uVars, gVars, rVars, hVars>>

\* every task of the group has completed: the updates are merged, in the order
\* of completion, and the edge webResearch -> reflection is taken
Join ==
  /\ pc = "webResearch"
  /\ \A i \in 1..Len(tasks) : IsSome(taskResult[i])
  /\ state' = ApplyUpdates(state,
                [k \in 1..Len(completionOrder) |-> ValueOf(taskResult[completionOrder[k]])])
  /\ pc' = "reflection"
  /\ UNCHANGED <<configuration, snapshot, tasks, taskResult, completionOrder,
                 lastRoute, nodeLog, emitted, error, mVars, uVars, gVars, rVars, hVars>>

Reflection ==
  /\ pc = "reflection"
  /\ \E llm \in ReflectionOutputs(state.researchLoopCount + 1) :
       /\ state' = ApplyUpdate(state, reflection(state, llm))
       /\ LET route == evaluateResearch(state', configuration)
          IN  IF route.kind = "node"
              THEN /\ pc' = route.node
                   /\ lastRoute' = route.node
                   /\ UNCHANGED <<snapshot, tasks, taskResult, completionOrder, emitted>>
              ELSE Dispatch(state', route.sends)
  /\ nodeLog' = Append(nodeLog, "reflection")
  /\ Emit("reflection")
  /\ UNCHANGED <<configuration, error, mVars, uVars, gVars, rVars>>

ReflectionThrows ==
  /\ pc = "reflection"
  /\ \E message \in ErrorMessages : Abort("reflection", message)

\* a graph whose edge from finalizeAnswer leads back to reflection
FinalizeAnswerLoopsBack ==
  /\ pc = "finalizeAnswer"
  /\ \E content \in AnswerContents(state.sourcesGathered) :
       state' = ApplyUpdate(state, finalizeAnswer(state, content))
  /\ pc' = "reflection"
  /\ nodeLog' = Append(nodeLog, "finalizeAnswer")
  /\ Emit("finalizeAnswer")
  /\ UNCHANGED <<configuration, snapshot, tasks, taskResult, completionOrder,
                 lastRoute, emitted, error, mVars, uVars, gVars, rVars>>

FinalizeAnswer ==
  /\ pc = "finalizeAnswer"
  /\ \E content \in AnswerContents(state.sourcesGathered) :
       state' = ApplyUpdate(state, finalizeAnswer(state, content))
  /\ pc' = "end"
  /\ nodeLog' = Append(nodeLog, "finalizeAnswer")
  /\ Emit("finalizeAnswer")
  /\ UNCHANGED <<configuration, snapshot, tasks, taskResult, completionOrder,
                 lastRoute, emitted, error, mVars, uVars, gVars, rVars>>

FinalizeAnswerThrows ==
  /\ pc = "finalizeAnswer"
  /\ \E message \in ErrorMessages : Abort("finalizeAnswer", message)

(***************************************************************************)
(* The routes /agent/invoke and /agent/stream around the run.              *)
(***************************************************************************)
\* graph.invoke resolved: res.json({output, sources, metadata})
InvokeResponds ==
  /\ caller = "invoke" /\ pc = "end" /\ ~responded
  /\ res' =
       Some([status |-> 200,
             body |-> [output |-> Last(state.messages).content,
                       sources |-> state.sourcesGathered,
                       metadata |-> [messageCount |-> Len(state.messages),
                                     researchLoopCount |-> state.researchLoopCount,
                                     searchQueries |-> state.searchQuery]]])
  /\ responded' = TRUE
  /\ UNCHANGED <<caller, events, log, runVars, mVars, uVars, gVars, rVars>>

\* graph.invoke rejected: the catch block logs and answers 500
InvokeFails ==
  /\ caller = "invoke" /\ pc = "failed" /\ ~responded
  /\ log' = Append(log, [message |-> "Agent invoke error", error |-> error])
  /\ res' =
       Some([status |-> 500,
             body |-> [error |-> "Internal server error", message |-> error]])
  /\ responded' = TRUE
  /\ UNCHANGED <<caller, events, runVars, mVars, uVars, gVars, rVars>>

\* the stream is exhausted: 'data: [DONE]' and res.end()
StreamEnds ==
  /\ caller = "stream" /\ pc = "end" /\ ~responded
  /\ events' = Append(events, [kind |-> "done"])
  /\ responded' = TRUE
  /\ UNCHANGED <<caller, res, log, runVars, mVars, uVars, gVars, rVars>>

\* the stream threw: the catch block logs, writes the error and res.end()
StreamFails ==
  /\ caller = "stream" /\ pc = "failed" /\ ~responded
  /\ log' = Append(log, [message |-> "Agent stream error", error |-> error])
  /\ events' = Append(events, [kind |-> "error", error |-> error])
  /\ responded' = TRUE
  /\ UNCHANGED <<caller, res, runVars, mVars, uVars, gVars, rVars>>

Next ==
  \/ GenerateQuery
  \/ GenerateQueryThrows
  \/ \E i \in 1..Len(tasks) : WebResearch(i)
  \/ \E i \in 1..Len(tasks) : WebResearchThrows(i)
  \/ Join
  \/ Reflection
  \/ ReflectionThrows
  \/ FinalizeAnswer
  \/ FinalizeAnswerThrows
  \/ InvokeResponds
  \/ InvokeFails
  \/ StreamEnds
  \/ StreamFails

(***************************************************************************)
(* Inputs of getCitations.                                                 *)
(***************************************************************************)
ChunkNoUri == [uri |-> "", title |-> Absent]

\* the chunk lists of a response: both chunks usable, or the second without URL
ChunkLists == {<<ChunkA, ChunkB>>, <<ChunkA, ChunkNoUri>>}

\* offsets a support may carry for a text of length n: absent, in the text, or
\* past its end
StartOptions(n) == {Absent, Some(0), Some(n + 1)}

EndOptions(n) == {Absent, Some(0), Some(n), Some(n + 1)}

SegmentOptions(n) ==
  {Absent}
  \cup {Some([startIndex |-> a, endIndex |-> b]) : a \in StartOptions(n), b \in EndOptions(n)}

\* chunk indices of a support: none, an empty list, both chunks, or one past
\* the list followed by the second chunk
IndexOptions == {Absent, Some(<<>>), Some(<<1, 0>>), Some(<<2, 1>>)}

SupportsOver(n) ==
  [segment : SegmentOptions(n), groundingChunkIndices : IndexOptions]

\* responses without candidate or grounding metadata, or without one of its lists
BareResponses(n) ==
  {[text |-> TextOfLen(n), metadata |-> Absent],
   [text |-> TextOfLen(n),
    metadata |-> Some([groundingChuncks |-> Some(<<ChunkA>>),
                       groundingSupports |-> Absent])],
   [text |-> TextOfLen(n),
    metadata |-> Some([groundingChuncks |-> Absent,
                       groundingSupports |-> Some(<<SupportOf(Some(0), Some(n), <<0>>)>>)])]}

\* the map handed to getCitations: the one resolveUrls makes of the chunk list,
\* or the one it makes of the first chunk alone
CitationsInit ==
  /\ \E n \in 0..MaxTextLen :
       \/ /\ gResponse \in BareResponses(n)
          /\ gMap = resolveUrls(<<ChunkA>>, 0)
       \/ \E chunks \in ChunkLists, k \in 0..MaxSupports :
            \E supports \in [1..k -> SupportsOver(n)] :
              /\ gResponse = [text |-> TextOfLen(n),
                              metadata |-> Some([groundingChuncks |-> Some(chunks),
                                                 groundingSupports |-> Some(supports)])]
              /\ gMap \in {resolveUrls(chunks, 0), resolveUrls(SubSeq(chunks, 1, 1), 0)}
  /\ gCitations = <<>>
  /\ gDone = FALSE

CitationsIdle ==
  /\ gResponse = [text |-> <<>>, metadata |-> Absent]
  /\ gMap = EmptyMap
  /\ gCitations = <<>>
  /\ gDone = FALSE

GetCitations ==
  /\ ~gDone
  /\ gCitations' = getCitations(gResponse, gMap)
  /\ gDone' = TRUE
  /\ UNCHANGED <<gResponse, gMap, mVars, uVars, rVars, runVars, hVars>>

CitationsNext == GetCitations

(***************************************************************************)
(* Inputs of the state reducers.  The elements of one call are of one      *)
(* kind: strings, numbers or booleans; "nullable" is an overwrite field    *)
(* that holds a number or null (Absent), such as maxResearchLoops.         *)
(***************************************************************************)
ElementsOf(kind) ==
  CASE kind = "string" -> {"", "a"}
    [] kind = "number" -> {0, 1}
    [] kind = "boolean" -> {FALSE, TRUE}
    [] kind = "nullable" -> {Absent, Some(0), Some(2)}

\* the updates of an accumulate field: nothing (undefined or null), a list, or
\* a single value
AccumulateUpdates(kind, shape) ==
  CASE shape = "nothing" -> {JsUndefined, [t |-> "null"]}
    [] shape = "list" -> {JsArray(l) : l \in SeqsUpTo(ElementsOf(kind), MaxUpdateLen)}
    [] shape = "single" -> {[t |-> kind, v |-> e] : e \in ElementsOf(kind)}

ReducersInit ==
  /\ \/ /\ rReducer = "simpleValue"
        /\ rKind \in {"string", "number", "boolean", "nullable"}
        /\ rCurrent \in ElementsOf(rKind)
        /\ rUpdate \in {Absent} \cup {Some(e) : e \in ElementsOf(rKind)}
     \/ /\ rReducer \in {"arrayAccumulator", "messages"}
        /\ rKind \in {"string", "number", "boolean"}
        /\ rCurrent \in SeqsUpTo(ElementsOf(rKind), MaxUpdateLen)
        /\ \E shape \in {"nothing", "list", "single"} :
             rUpdate \in AccumulateUpdates(rKind, shape)
  /\ rOut = <<>>
  /\ rDone = FALSE

ReducersIdle ==
  /\ rReducer = "simpleValue" /\ rKind = "boolean" /\ rCurrent = FALSE
  /\ rUpdate = Absent /\ rOut = <<>> /\ rDone = FALSE

ApplyReducer ==
  /\ ~rDone
  /\ rOut' = CASE rReducer = "simpleValue" -> simpleValue(rCurrent, rUpdate)
               [] rReducer = "arrayAccumulator" -> arrayAccumulator(rCurrent, rUpdate)
               [] rReducer = "messages" -> messagesReducer(rCurrent, rUpdate)
  /\ rDone' = TRUE
  /\ UNCHANGED <<rReducer, rKind, rCurrent, rUpdate, mVars, uVars, gVars, runVars, hVars>>

ReducersNext == ApplyReducer

(***************************************************************************)
(* Specifications.                                                         *)
(***************************************************************************)
Init == RunInit /\ MarkersIdle /\ UrlsIdle /\ CitationsIdle /\ ReducersIdle

Spec == Init /\ [][Next]_vars

\* the executor runs every node that is scheduled, completes some task of a
\* running group, joins a completed group, and the routes answer a run that is
\* over; nothing obliges a node to throw
Fairness ==
  /\ WF_vars(GenerateQuery)
  /\ WF_vars(\E i \in 1..Len(tasks) : WebResearch(i))
  /\ WF_vars(Join)
  /\ WF_vars(Reflection)
  /\ WF_vars(FinalizeAnswer)
  /\ WF_vars(InvokeResponds)
  /\ WF_vars(StreamEnds)

FairSpec == Init /\ [][Next]_vars /\ Fairness

InitMarkers == MarkersInit /\ UrlsIdle /\ CitationsIdle /\ ReducersIdle /\ RunIdle

SpecMarkers == InitMarkers /\ [][MarkersNext]_vars

InitUrls == UrlsInit /\ MarkersIdle /\ CitationsIdle /\ ReducersIdle /\ RunIdle

SpecUrls == InitUrls /\ [][UrlsNext]_vars

InitCitations == CitationsInit /\ MarkersIdle /\ UrlsIdle /\ ReducersIdle /\ RunIdle

SpecCitations == InitCitations /\ [][CitationsNext]_vars

InitReducers == ReducersInit /\ MarkersIdle /\ UrlsIdle /\ CitationsIdle /\ RunIdle

SpecReducers == InitReducers /\ [][ReducersNext]_vars

\* the state of a run of one query whose search was grounded on the n distinct
\* chunks, cited in the order given, and whose reflection was sufficient
GatheredRun(chunks, order) ==
  LET queried == ApplyUpdate(InitialState(Absent),
                   generateQuery(InitialState(Absent),
                                 [query |-> <<"q1">>, rationale |-> "why"]))
      sends == continueToWebResearch(queried)
      response ==
        [text |-> <<"r">>,
         metadata |-> Some([groundingChuncks |-> Some(chunks),
                            groundingSupports |->
                              Some(<<SupportOf(Some(0), Some(1), order)>>)])]
      result == webResearch(TaskInput(queried, sends[1].args),
                            [ok |-> TRUE, response |-> response])
      joined == ApplyUpdate(queried, result)
  IN  [queried |-> queried, sends |-> sends, result |-> result,
       reflected |-> ApplyUpdate(joined,
                       reflection(joined, [isSufficient |-> TRUE,
                                           followUpQueries |-> Some(<<>>)]))]

\* the pages of a search: up to MaxDistinctChunks pages with plain URLs, or
\* two pages the first of which has MatchPatternUrl
GatheredChunks ==
  {DistinctChunks(n) : n \in 0..MaxDistinctChunks}
  \cup {<<[uri |-> MatchPatternUrl, title |-> Absent], ChunkB>>}

\* a run about to finalize, having gathered the sources of one search, cited
\* in ascending or in descending order of the chunks
InitFinalize ==
  /\ \E chunks \in GatheredChunks :
       \E order \in {[i \in 1..Len(chunks) |-> i - 1],
                     [i \in 1..Len(chunks) |-> Len(chunks) - i]} :
         LET run == GatheredRun(chunks, order)
         IN  /\ state = run.reflected
             /\ snapshot = run.queried
             /\ tasks = run.sends
             /\ emitted = run.sends
             /\ taskResult = <<Some(run.result)>>
  /\ configuration = [maxResearchLoops |-> DefaultMaxResearchLoops]
  /\ pc = "finalizeAnswer"
  /\ completionOrder = <<1>>
  /\ lastRoute = "finalizeAnswer"
  /\ nodeLog = <<"generateQuery", "webResearch", "reflection">>
  /\ error = ""
  /\ caller = "graph" /\ res = Absent /\ events = <<>>
  /\ responded = FALSE /\ log = <<>>
  /\ MarkersIdle
  /\ UrlsIdle
  /\ CitationsIdle
  /\ ReducersIdle

FinalizeNext == FinalizeAnswer \/ FinalizeAnswerThrows

SpecFinalize == InitFinalize /\ [][FinalizeNext]_vars

(***************************************************************************)
(* Properties of the run (under Spec).                                     *)
(***************************************************************************)
\* the reflection node has just returned and its routing function has run
AfterReflection == nodeLog # <<>> /\ Last(nodeLog) = "reflection" /\ pc # "failed"

\* the loop budget of the run
BudgetOfRun ==
  IF IsSome(state.maxResearchLoops) THEN ValueOf(state.maxResearchLoops)
  ELSE configuration.maxResearchLoops

\* C1: after every reflection step the route is finalizeAnswer if and only if
\* isSufficient is true or researchLoopCount >= maxResearchLoops; in every other
\* state the route is a list of Send objects that all target webResearch.
C1_FinalizeIffSufficientOrBudgetSpent ==
  AfterReflection =>
    /\ (pc = "finalizeAnswer") <=>
         (state.isSufficient \/ state.researchLoopCount >= BudgetOfRun)
    /\ (lastRoute = "finalizeAnswer") <=> (pc = "finalizeAnswer")
    /\ pc # "finalizeAnswer" =>
         /\ lastRoute = "webResearch"
         /\ pc \in {"webResearch", "stalled"}
         /\ \A i \in 1..Len(tasks) : tasks[i].node = "webResearch"

\* a reflection that was not sufficient and is routed to finalizeAnswer, the
\* budget being spent
C1_Witness ==
  /\ AfterReflection
  /\ pc = "finalizeAnswer"
  /\ ~state.isSufficient
  /\ state.researchLoopCount = BudgetOfRun
  /\ BudgetOfRun > 1

\* C2: with maxResearchLoops = 2 and no sufficient reflection, the route is
\* finalizeAnswer at the reflection that sets researchLoopCount to 2: not at the
\* one that sets it to 1, and researchLoopCount never exceeds 2.
C2_FinalizeAtSecondLoop ==
  BudgetOfRun = 2 =>
    /\ state.researchLoopCount <= 2
    /\ (AfterReflection /\ ~state.isSufficient /\ state.researchLoopCount = 1) =>
         pc # "finalizeAnswer"
    /\ (AfterReflection /\ state.researchLoopCount = 2) => pc = "finalizeAnswer"
    /\ (AfterReflection /\ ~state.isSufficient /\ pc = "finalizeAnswer") =>
         state.researchLoopCount = 2

\* two reflections, neither sufficient, the second routed to finalizeAnswer
C2_Witness ==
  /\ BudgetOfRun = 2
  /\ AfterReflection
  /\ ~state.isSufficient
  /\ state.researchLoopCount = 2
  /\ pc = "finalizeAnswer"
  /\ Len(SelectSeq(nodeLog, LAMBDA n : n = "reflection")) = 2

\* the number of times x occurs in seq
Count(seq, x) == Cardinality({i \in 1..Len(seq) : seq[i] = x})

\* seq holds exactly the elements of base and of every list of parts, each as
\* often as they hold it together
IsBagUnion(seq, base, parts) ==
  LET all == base \o Flatten(parts)
  IN  /\ Len(seq) = Len(all)
      /\ \A x \in Range(seq) \cup Range(all) : Count(seq, x) = Count(all, x)

IsPrefix(p, seq) == Len(p) <= Len(seq) /\ SubSeq(seq, 1, Len(p)) = p

\* the fan-out group has been joined and reflection has not run yet
AfterJoin == pc = "reflection"

\* what task i contributed to an accumulate field
Contribution(i, field) == ValueOf(taskResult[i])[field].v

\* C3: after the join of a fan-out group of N webResearch tasks, whatever the
\* order in which they completed, searchQuery, webResearchResult and
\* sourcesGathered hold the prior contents plus the multiset union of the N
\* contributions: nothing lost, nothing duplicated.
C3_JoinIsBagUnionOfContributions ==
  AfterJoin =>
    \A field \in {"searchQuery", "webResearchResult", "sourcesGathered"} :
      /\ IsPrefix(snapshot[field], state[field])
      /\ IsBagUnion(state[field], snapshot[field],
                    [i \in 1..Len(tasks) |-> Contribution(i, field)])

\* a group of two joined after completing in reverse order, on a state that
\* already held results, with a source contributed
C3_Witness ==
  /\ AfterJoin
  /\ completionOrder = <<2, 1>>
  /\ snapshot.searchQuery # <<>>
  /\ Len(state.sourcesGathered) > Len(snapshot.sourcesGathered)
  /\ Contribution(1, "searchQuery") # Contribution(2, "searchQuery")

AllTasksCompleted == \A i \in 1..Len(tasks) : IsSome(taskResult[i])

\* C4: while a fan-out group runs, no result is merged into the shared state and
\* reflection does not start until every task of the group has completed.
C4_JoinBarrier ==
  [][(pc = "webResearch" /\ (state' # state \/ pc' = "reflection")) => AllTasksCompleted]_vars

\* a group with one task completed and one still running, nothing merged
C4_Witness ==
  /\ pc = "webResearch"
  /\ Len(tasks) = 2
  /\ Len(completionOrder) = 1
  /\ state = snapshot
  /\ ValueOf(taskResult[completionOrder[1]]).searchQuery.v # <<>>

\* the short URLs minted for batch id: prefix + id + "-" + index
IsShortUrlOfBatch(shortUrl, id) ==
  /\ Len(shortUrl) > Len(NumberToString(id)) + 2
  /\ SubSeq(shortUrl, 1, Len(NumberToString(id)) + 2)
       = <<prefix>> \o NumberToString(id) \o <<"-">>

\* C5: a webResearch task computes from the snapshot its group was dispatched on
\* and from its own arguments only: while the group runs the shared state stays
\* what the snapshot holds, and the update of a completed task is the one
\* webResearch returns on the snapshot and the task's own searchQuery and id,
\* whatever its siblings have done.
C5_BranchReadsSnapshotAndOwnArguments ==
  pc = "webResearch" =>
    /\ state = snapshot
    /\ \A i \in 1..Len(tasks) :
         IsSome(taskResult[i]) =>
           /\ \E search \in SearchOutcomes :
                ValueOf(taskResult[i])
                  = webResearch(TaskInput(snapshot, tasks[i].args), search)
           /\ Contribution(i, "searchQuery") = <<tasks[i].args.searchQuery>>
           /\ \A k \in 1..Len(Contribution(i, "sourcesGathered")) :
                IsShortUrlOfBatch(Contribution(i, "sourcesGathered")[k].shortUrl,
                                  tasks[i].args.id)

\* the second task of a group has completed after the first, with a source
C5_Witness ==
  /\ pc = "webResearch"
  /\ completionOrder = <<1, 2>>
  /\ Contribution(2, "sourcesGathered") # <<>>
  /\ tasks[1].args.searchQuery # tasks[2].args.searchQuery

(***************************************************************************)
(* Properties of insertCitationMarkers (under SpecMarkers).                *)
(***************************************************************************)
\* C6: insertCitationMarkers returns the same text for every reordering of the
\* same citation list, also when citations share both offsets and differ in
\* their sources: a call on a reordering returns what the call on the list as
\* given returned.
C6_SameOutputForEveryOrder == mPhase = "applied" => mOut = mRef

\* the call of the example: "The sky is blue." with the one citation 4..12 (NASA, s1)
C7_ExampleCall ==
  mPhase = "applied" /\ mText = SkyText /\ mApplied = <<NasaCitation>>

\* C7, as stated: the example call returns "The sky [NASA](s1) is blue."
C7_ExampleAsStated ==
  C7_ExampleCall =>
    mOut = <<"T", "h", "e", " ", "s", "k", "y",
             " ", "[", "N", "A", "S", "A", "]", "(", "s", "1", ")",
             " ", "i", "s", " ", "b", "l", "u", "e", ".">>

\* C7, amended: the example call returns "The sky is b [NASA](s1)lue.": the marker
\* goes in after the first 12 characters, the end offset of the citation.
C7_ExampleOutput ==
  C7_ExampleCall =>
    mOut = <<"T", "h", "e", " ", "s", "k", "y", " ", "i", "s", " ", "b",
             " ", "[", "N", "A", "S", "A", "]", "(", "s", "1", ")",
             "l", "u", "e", ".">>

C7_Witness == C7_ExampleCall /\ Len(mOut) = Len(SkyText) + 11

\* the markers of the citations that end at offset e, taken in the order p
MarkersEndingAt(list, p, e) ==
  Flatten([i \in 1..Len(list) |->
             IF list[p[i]].endIndex = e THEN MarkerOf(list[p[i]].segments) ELSE <<>>])

\* the text with, before each character e (0-based) and after the last one, the
\* markers of the citations that end at e
TextWithMarkersAtEnds(text, list, p) ==
  Flatten([k \in 1..(Len(text) + 1) |->
             MarkersEndingAt(list, p, k - 1)
               \o (IF k <= Len(text) THEN <<text[k]>> ELSE <<>>)])

C8_EndsInRange ==
  mPhase = "applied" /\ \A i \in 1..Len(mApplied) : mApplied[i].endIndex \in 0..Len(mText)

\* C8: when every end offset lies in 0..len(text), the output is the original
\* text, unchanged and in order, with the marker of each citation between the
\* original characters e-1 and e, e its end offset in the original text.
C8_MarkersAtOriginalOffsets ==
  C8_EndsInRange =>
    \E p \in Perms(Len(mApplied)) : mOut = TextWithMarkersAtEnds(mText, mApplied, p)

\* a list given in ascending order of two different end offsets inside the text
C8_Witness ==
  /\ C8_EndsInRange
  /\ Len(mApplied) = 2
  /\ 0 < mApplied[1].endIndex
  /\ mApplied[1].endIndex < mApplied[2].endIndex
  /\ mOut # mText

(***************************************************************************)
(* Properties of resolveUrls (under SpecUrls).                             *)
(***************************************************************************)
\* the non-empty URLs of a chunk list
UrlsIn(chunks) == {UrlOf(chunks[i]) : i \in 1..Len(chunks)} \ {""}

\* the 0-based position of the first chunk carrying url
FirstPosition(chunks, url) ==
  (CHOOSE i \in 1..Len(chunks) :
     /\ UrlOf(chunks[i]) = url
     /\ \A j \in 1..(i - 1) : UrlOf(chunks[j]) # url) - 1

\* C9: within a batch every non-empty URL of the chunk list has one short
\* identifier, and two distinct URLs never have the same one.
C9_InjectiveWithinBatch ==
  uDone =>
    /\ DOMAIN uMap = UrlsIn(uChunks)
    /\ \A u, v \in DOMAIN uMap : u # v => uMap[u] # uMap[v]

\* two distinct URLs, one of them occurring twice
C9_Witness ==
  /\ uDone
  /\ Cardinality(DOMAIN uMap) = 2
  /\ \E i, j \in 1..Len(uChunks) : i # j /\ UrlOf(uChunks[i]) = UrlOf(uChunks[j])
                                     /\ UrlOf(uChunks[i]) # ""

\* C10: each distinct non-empty URL maps to prefix + batchId + "-" + i, i the
\* position of its first occurrence counted over all chunks; a chunk with an
\* empty or absent URL adds no key.
C10_FirstOccurrenceIndex ==
  uDone =>
    /\ DOMAIN uMap = UrlsIn(uChunks)
    /\ \A u \in UrlsIn(uChunks) :
         uMap[u] = <<prefix>> \o NumberToString(uId) \o <<"-">>
                     \o NumberToString(FirstPosition(uChunks, u))

\* a URL that occurs twice, first after a chunk with an empty or absent URL
C10_Witness ==
  /\ uDone
  /\ Len(uChunks) = 3
  /\ UrlOf(uChunks[1]) = ""
  /\ UrlOf(uChunks[2]) # ""
  /\ UrlOf(uChunks[3]) = UrlOf(uChunks[2])
  /\ uMap[UrlOf(uChunks[2])] = <<prefix>> \o NumberToString(uId) \o <<"-", "1">>

(***************************************************************************)
(* Properties of finalizeAnswer in a run (under Spec).                     *)
(***************************************************************************)
\* the sources of a list that are the first of their original URL, in order
DistinctByUrl(sources) ==
  SelectSeq([i \in 1..Len(sources) |-> [at |-> i, source |-> sources[i]]],
            LAMBDA e : \A j \in 1..(e.at - 1) : sources[j].value # e.source.value)

\* finalizeAnswer runs and returns
FinalizeAnswerStep == pc = "finalizeAnswer" /\ pc' = "end"

\* C11: once finalizeAnswer has run, sourcesGathered of the final state holds
\* one entry per distinct original URL of the sources gathered during the run,
\* in first-seen order.
C11_FinalSourcesOnePerUrl ==
  [][FinalizeAnswerStep =>
       /\ Len(state'.sourcesGathered) = Len(DistinctByUrl(state.sourcesGathered))
       /\ \A k \in 1..Len(state'.sourcesGathered) :
            state'.sourcesGathered[k] = DistinctByUrl(state.sourcesGathered)[k].source]_vars

(***************************************************************************)
(* Properties of the short URLs in the answer (under SpecFinalize).        *)
(***************************************************************************)
\* the answers of AnswerContents with each short URL replaced by the original
\* URL of its own source
ExpectedAnswers(sources) ==
  {<<"answer">>}
  \cup {<<"answer", " ", sources[i].value, ".">> : i \in 1..Len(sources)}
  \cup {<<"answer">> \o Flatten([i \in 1..Len(sources) |-> <<" ", sources[i].value>>])}

\* C12: finalizeAnswer replaces every occurrence of a gathered source's short
\* URL in the answer by the original URL of that same source, never by the URL
\* of another source, for any number of gathered sources in any order.
C12_ShortUrlReplacedByOwnUrl ==
  [][FinalizeAnswerStep =>
       Last(state'.messages).content \in ExpectedAnswers(state.sourcesGathered)]_vars

(***************************************************************************)
(* Properties of resolveUrls on long chunk lists (under SpecUrls).         *)
(***************************************************************************)
\* C13: no short URL minted by resolveUrls is a proper prefix, or any proper
\* substring, of another short URL it minted.
C13_NoShortUrlInsideAnother ==
  uDone =>
    \A u, v \in DOMAIN uMap : u # v => ~Includes(uMap[v], uMap[u])

(***************************************************************************)
(* Properties of the ids of the Send objects (under Spec).                 *)
(***************************************************************************)
\* C14: no two Send objects emitted in a run carry the same id: the k-th one
\* emitted carries k - 1, the initial fan-out carrying 0..n-1 and every later
\* fan-out starting at numberOfRanQueries, which is the number of webResearch
\* executions completed when reflection ran.
C14_SendIdsNeverCollide ==
  /\ \A i, j \in 1..Len(emitted) : i # j => emitted[i].args.id # emitted[j].args.id
  /\ \A i \in 1..Len(emitted) : emitted[i].args.id = i - 1
  /\ AfterReflection => state.numberOfRanQueries = Count(nodeLog, "webResearch")
  /\ (AfterReflection /\ tasks # <<>> /\ pc = "webResearch") =>
       tasks[1].args.id = state.numberOfRanQueries

\* the third fan-out of a run, of two Send objects, after an initial one of two
C14_Witness ==
  /\ AfterReflection
  /\ pc = "webResearch"
  /\ state.researchLoopCount = 2
  /\ Len(state.queryList) = 2
  /\ Len(tasks) = 2
  /\ tasks[1].args.id = 3
  /\ tasks[2].args.id = 4

(***************************************************************************)
(* Properties of getCitations (under SpecCitations).                       *)
(***************************************************************************)
\* the grounding supports and the grounding chunks of the response
SupportsOfResponse ==
  IF IsSome(gResponse.metadata) /\ IsSome(ValueOf(gResponse.metadata).groundingSupports)
  THEN ValueOf(ValueOf(gResponse.metadata).groundingSupports) ELSE <<>>

ChunksOfResponse ==
  IF IsSome(gResponse.metadata) /\ IsSome(ValueOf(gResponse.metadata).groundingChuncks)
  THEN ValueOf(ValueOf(gResponse.metadata).groundingChuncks) ELSE <<>>

HasStart(support) ==
  IsSome(support.segment) /\ IsSome(ValueOf(support.segment).startIndex)

HasEnd(support) ==
  IsSome(support.segment) /\ IsSome(ValueOf(support.segment).endIndex)

\* the URLs a support cites that are keys of the map, in the order it cites them
ResolvableUrls(support) ==
  IF ~IsSome(support.groundingChunkIndices) THEN <<>>
  ELSE LET indices == ValueOf(support.groundingChunkIndices)
           cited == [k \in 1..Len(indices) |->
                       IF indices[k] + 1 \in 1..Len(ChunksOfResponse)
                       THEN UrlOf(ChunksOfResponse[indices[k] + 1]) ELSE ""]
       IN  SelectSeq(cited, LAMBDA u : u # "" /\ u \in DOMAIN gMap)

\* C15, as stated: a support yields a citation only when its segment has both
\* a start offset and an end offset.
C15_BothOffsetsRequired ==
  gDone =>
    LET kept == SelectSeq(SupportsOfResponse,
                  LAMBDA s : HasStart(s) /\ HasEnd(s) /\ ResolvableUrls(s) # <<>>)
    IN  /\ Len(gCitations) = Len(kept)
        /\ \A k \in 1..Len(kept) :
             /\ gCitations[k].startIndex = ValueOf(ValueOf(kept[k].segment).startIndex)
             /\ gCitations[k].endIndex = ValueOf(ValueOf(kept[k].segment).endIndex)

\* C15, amended: a support yields a citation only when its segment has an end
\* offset; one without end offset, or without segment, yields none, and one
\* without start offset yields a citation that starts at 0.
C15_EndOffsetRequired ==
  gDone =>
    LET kept == SelectSeq(SupportsOfResponse,
                  LAMBDA s : HasEnd(s) /\ ResolvableUrls(s) # <<>>)
    IN  /\ Len(gCitations) = Len(kept)
        /\ \A k \in 1..Len(kept) :
             /\ gCitations[k].startIndex =
                  (IF HasStart(kept[k])
                   THEN ValueOf(ValueOf(kept[k].segment).startIndex) ELSE 0)
             /\ gCitations[k].endIndex = ValueOf(ValueOf(kept[k].segment).endIndex)

\* a support without end offset that yields nothing, before one without start
\* offset that yields a citation starting at 0
C15_Witness ==
  /\ gDone
  /\ Len(SupportsOfResponse) = 2
  /\ HasStart(SupportsOfResponse[1]) /\ ~HasEnd(SupportsOfResponse[1])
  /\ ResolvableUrls(SupportsOfResponse[1]) # <<>>
  /\ ~HasStart(SupportsOfResponse[2]) /\ HasEnd(SupportsOfResponse[2])
  /\ Len(gCitations) = 1
  /\ gCitations[1].startIndex = 0
  /\ gCitations[1].endIndex > 0

\* C16: every citation has at least one source; its sources are the chunks its
\* support cites whose URL is a key of the map, each with the short URL the map
\* holds for it; a chunk whose URL is no key is left out, and a support left
\* without source yields no citation.
C16_SourcesAreResolvedChunks ==
  gDone =>
    LET kept == SelectSeq(SupportsOfResponse,
                  LAMBDA s : HasEnd(s) /\ ResolvableUrls(s) # <<>>)
    IN  /\ Len(gCitations) = Len(kept)
        /\ \A k \in 1..Len(gCitations) :
             /\ gCitations[k].segments # <<>>
             /\ Len(gCitations[k].segments) = Len(ResolvableUrls(kept[k]))
             /\ \A j \in 1..Len(gCitations[k].segments) :
                  /\ gCitations[k].segments[j].value = ResolvableUrls(kept[k])[j]
                  /\ gCitations[k].segments[j].value \in DOMAIN gMap
                  /\ gCitations[k].segments[j].shortUrl
                       = gMap[gCitations[k].segments[j].value]

\* a support whose only usable chunk is no key of the map, yielding nothing,
\* before one that cites that chunk and a chunk of the map, yielding one source
C16_Witness ==
  /\ gDone
  /\ Len(SupportsOfResponse) = 2
  /\ \A i \in 1..2 : HasEnd(SupportsOfResponse[i])
  /\ SupportsOfResponse[1].groundingChunkIndices = Some(<<2, 1>>)
  /\ SupportsOfResponse[2].groundingChunkIndices = Some(<<1, 0>>)
  /\ UrlOf(ChunksOfResponse[2]) # ""
  /\ UrlOf(ChunksOfResponse[2]) \notin DOMAIN gMap
  /\ Len(gCitations) = 1
  /\ Len(gCitations[1].segments) = 1

\* C17: every citation getCitations returns satisfies
\* 0 <= startIndex <= endIndex <= length of the response text.
C17_OffsetsWithinText ==
  gDone =>
    \A k \in 1..Len(gCitations) :
      /\ 0 <= gCitations[k].startIndex
      /\ gCitations[k].startIndex <= gCitations[k].endIndex
      /\ gCitations[k].endIndex <= Len(gResponse.text)

(***************************************************************************)
(* Properties of the course of a run (under Spec).                         *)
(***************************************************************************)
\* reflection has ended insufficient, with budget left and no follow-up query
StallCase ==
  /\ AfterReflection
  /\ ~state.isSufficient
  /\ state.researchLoopCount < BudgetOfRun
  /\ state.followUpQueries = <<>>

\* C18: when a reflection step ends with isSufficient false, researchLoopCount
\* below maxResearchLoops and no follow-up query, evaluateResearch returns an
\* empty list of Send objects, no node executes afterwards and the run never
\* executes finalizeAnswer.
C18_EmptyFollowUpsStall ==
  [][/\ pc # "stalled"
     /\ StallCase' =>
          /\ pc' = "stalled"
          /\ lastRoute' = "webResearch"
          /\ tasks' = <<>>
          /\ Count(nodeLog', "finalizeAnswer") = 0]_vars

\* a first reflection that ended so, in a run of two queries with budget 2
C18_Witness ==
  /\ StallCase
  /\ pc = "stalled"
  /\ state.researchLoopCount = 1
  /\ BudgetOfRun = 2
  /\ Len(state.searchQuery) = 2

\* task i of the current group returned what webResearch returns on a search
\* that succeeded
Succeeded(i) ==
  /\ IsSome(taskResult[i])
  /\ \E r \in SearchResponses :
       ValueOf(taskResult[i])
         = webResearch(TaskInput(snapshot, tasks[i].args), [ok |-> TRUE, response |-> r])

\* generateQuery returned one query, its webResearch succeeded and the first
\* reflection was sufficient
OneLoopCase ==
  /\ Len(state.queryList) = 1
  /\ state.researchLoopCount = 1
  /\ state.isSufficient
  /\ Len(tasks) = 1 => Succeeded(1)

\* C19: in a run of one query whose webResearch succeeds and whose first
\* reflection is sufficient, the nodes executed are generateQuery, one
\* webResearch, reflection, finalizeAnswer; the run ends with researchLoopCount
\* 1 and no second fan-out is emitted.
C19_OneLoopRun ==
  OneLoopCase =>
    /\ Len(emitted) = 1
    /\ Len(tasks) = 1
    /\ pc \in {"finalizeAnswer", "end", "failed"}
    /\ pc = "finalizeAnswer" => nodeLog = <<"generateQuery", "webResearch", "reflection">>
    /\ pc \in {"end", "failed"} =>
         nodeLog = <<"generateQuery", "webResearch", "reflection", "finalizeAnswer">>

\* such a run, ended, with budget left for a second loop
C19_Witness ==
  /\ OneLoopCase
  /\ pc = "end"
  /\ BudgetOfRun > 1
  /\ nodeLog = <<"generateQuery", "webResearch", "reflection", "finalizeAnswer">>
  /\ state.researchLoopCount = 1

\* C20: a failed model or search call in any node is recovered in that node:
\* the node returns an update and the run goes on, it is never aborted.
C20_NoFailureAbortsTheRun == pc # "failed" /\ error = ""

(***************************************************************************)
(* Properties of a failed run and of the routes (under Spec).              *)
(***************************************************************************)
\* C21: when a node throws the run is aborted: no node executes afterwards,
\* what the completed tasks of the same fan-out group returned is not merged,
\* no final state is returned and the failure reaches the caller.
C21_FailureAbortsTheRun ==
  [][/\ pc = "failed" => UNCHANGED runVars
     /\ (pc # "failed" /\ pc' = "failed") =>
          /\ state' = state
          /\ taskResult' = taskResult
          /\ error' \in ErrorMessages
     /\ (pc' = "failed" /\ responded' /\ caller = "invoke") =>
          ValueOf(res') = [status |-> 500,
                           body |-> [error |-> "Internal server error",
                                     message |-> error]]
     /\ (pc' = "failed" /\ responded' /\ caller = "stream") =>
          Last(events') = [kind |-> "error", error |-> error]]_vars

\* a task of a group of two threw after its sibling had completed, and
\* /agent/invoke has answered
C21_Witness ==
  /\ pc = "failed"
  /\ caller = "invoke"
  /\ responded
  /\ Last(nodeLog) = "webResearch"
  /\ Len(tasks) = 2
  /\ Len(completionOrder) = 1
  /\ Contribution(completionOrder[1], "searchQuery") # <<>>
  /\ state = snapshot
  /\ ValueOf(res).status = 500

\* C22: when a run fails, what the route sends to the caller is a generic
\* failure that carries nothing of the error's message, so that runs failing
\* with different messages get the same response; the message goes to the log.
C22_FailureResponseIsGeneric ==
  (pc = "failed" /\ responded) =>
    /\ Last(log).error = error
    /\ caller = "invoke" => ValueOf(res).body.message \notin ErrorMessages
    /\ caller = "stream" => Last(events).error \notin ErrorMessages

\* the nodes that completed, in order: one chunk each
ChunksOf(nodes) ==
  [k \in 1..Len(nodes) |-> [kind |-> "chunk", node |-> nodes[k]]]

\* C23: a response of /agent/stream ends with the sentinel event as its last
\* event, after one event per completed node, also when the run has failed.
C23_StreamEndsWithSentinel ==
  (caller = "stream" /\ responded) =>
    /\ Last(events).kind = "done"
    /\ SubSeq(events, 1, Len(events) - 1)
         = ChunksOf(IF pc = "failed" THEN SubSeq(nodeLog, 1, Len(nodeLog) - 1) ELSE nodeLog)

(***************************************************************************)
(* Properties of the state along a run (under Spec).                       *)
(***************************************************************************)
\* the step is a reflection node that returned
ReflectionStep == nodeLog' = Append(nodeLog, "reflection") /\ pc' # "failed"

\* C24: researchLoopCount never decreases: a reflection step adds exactly 1 to
\* it and every other step leaves it as it is.
C24_LoopCountGrowsByReflectionOnly ==
  [][state'.researchLoopCount
       = state.researchLoopCount + (IF ReflectionStep THEN 1 ELSE 0)]_vars

\* a run ended after two reflections
C24_Witness ==
  /\ pc = "end"
  /\ state.researchLoopCount = 2
  /\ Count(nodeLog, "reflection") = 2
  /\ Count(nodeLog, "webResearch") > 2

AccumulateFields ==
  {"messages", "searchQuery", "webResearchResult", "sourcesGathered", "followUpQueries"}

\* C25: in every step the value of each accumulate field before the step is a
\* prefix of its value after it: no update, that of finalizeAnswer included,
\* removes or replaces an entry.
C25_AccumulateFieldsOnlyGrow ==
  [][\A field \in AccumulateFields : IsPrefix(state[field], state'[field])]_vars

\* finalizeAnswer has added the sources the answer cites to those gathered,
\* after two loops that each added follow-up queries
C25_Witness ==
  /\ pc = "end"
  /\ Len(state.messages) = 2
  /\ Len(state.followUpQueries) = 2
  /\ Len(state.searchQuery) > Len(state.queryList)
  /\ \E i, j \in 1..Len(state.sourcesGathered) :
       i < j /\ state.sourcesGathered[i] = state.sourcesGathered[j]

\* C26: every Send emitted is consumed exactly once: when a group has been
\* joined, and when the run has ended, the number of webResearch executions
\* and the length of searchQuery both equal the number of Send objects emitted
\* so far; while a group runs, the tasks still to run make up the difference.
C26_EverySendConsumedOnce ==
  /\ pc \in {"reflection", "finalizeAnswer", "end", "stalled"} =>
       /\ Count(nodeLog, "webResearch") = Len(emitted)
       /\ Len(state.searchQuery) = Len(emitted)
  /\ pc = "webResearch" =>
       /\ Len(completionOrder) = Cardinality(Range(completionOrder))
       /\ Count(nodeLog, "webResearch") + (Len(tasks) - Len(completionOrder))
            = Len(emitted)

\* the third group of a run has been joined
C26_Witness ==
  /\ pc = "reflection"
  /\ state.researchLoopCount = 2
  /\ Len(tasks) = 2
  /\ Len(emitted) = 5
  /\ Len(state.searchQuery) = 5

\* task i of the current group returned what webResearch returns on a search
\* that failed
Failed(i) ==
  /\ IsSome(taskResult[i])
  /\ \A r \in SearchResponses :
       ValueOf(taskResult[i])
         # webResearch(TaskInput(snapshot, tasks[i].args), [ok |-> TRUE, response |-> r])

\* C30: every webResearch execution, its search succeeding or failing, adds one
\* entry to searchQuery, its own query, and one to webResearchResult, and when
\* the search fails no source; searchQuery and webResearchResult have the same
\* length after every join.
C30_OneQueryOneResultPerExecution ==
  /\ \A i \in 1..Len(taskResult) :
       IsSome(taskResult[i]) =>
         /\ Contribution(i, "searchQuery") = <<tasks[i].args.searchQuery>>
         /\ Len(Contribution(i, "webResearchResult")) = 1
         /\ Failed(i) => Contribution(i, "sourcesGathered") = <<>>
  /\ Len(state.searchQuery) = Len(state.webResearchResult)

\* a group of two joined, one search having failed and one having found a source
C30_Witness ==
  /\ pc = "reflection"
  /\ Len(tasks) = 2
  /\ Failed(1)
  /\ Contribution(2, "sourcesGathered") # <<>>
  /\ Len(state.searchQuery) = 2
  /\ Len(state.webResearchResult) = 2

\* C27: in a run started by a route, whose initial state supplies no
\* maxResearchLoops, the budget evaluateResearch compares researchLoopCount
\* with is the configured maxResearchLoops: an insufficient reflection is
\* routed to finalizeAnswer exactly when researchLoopCount has reached it.
C27_ConfiguredBudgetApplies ==
  (caller \in {"invoke", "stream"} /\ AfterReflection /\ ~state.isSufficient) =>
    ((pc = "finalizeAnswer") <=>
       (state.researchLoopCount >= configuration.maxResearchLoops))

(***************************************************************************)
(* Properties of the state reducers (under SpecReducers).                  *)
(***************************************************************************)
\* C28: simpleValue returns the update when it is defined, also when it is
\* false, 0, the empty string or null, and the prior value when the update is
\* undefined.
C28_OverwriteTakesEveryDefinedUpdate ==
  (rDone /\ rReducer = "simpleValue") =>
    IF rUpdate = Absent THEN rOut = rCurrent ELSE rOut = ValueOf(rUpdate)

\* isSufficient was true and the update false has replaced it
C28_Witness ==
  /\ rDone
  /\ rReducer = "simpleValue"
  /\ rKind = "boolean"
  /\ rCurrent = TRUE
  /\ rUpdate = Some(FALSE)
  /\ rOut = FALSE

\* C29: the accumulate reducers return the prior list followed by the elements
\* of a list update in order, the prior list followed by a single defined
\* value whatever it is (the empty string and 0 included), and the prior list
\* unchanged when there is no update.
C29_AccumulateAppendsEveryValue ==
  (rDone /\ rReducer \in {"arrayAccumulator", "messages"}) =>
    CASE rUpdate.t = "array" -> rOut = rCurrent \o rUpdate.v
      [] rUpdate.t \in {"undefined", "null"} -> rOut = rCurrent
      [] OTHER -> rOut = Append(rCurrent, rUpdate.v)

(***************************************************************************)
(* Properties of the loop of a run (under Spec).                           *)
(***************************************************************************)
\* max(1, maxResearchLoops) of the run
LoopBound == Max(1, BudgetOfRun)

\* C31: in every state of a run researchLoopCount <= max(1, maxResearchLoops),
\* the reflection node has executed at most that many times, and the fan-out
\* group dispatched last, the one after researchLoopCount reflections, is at
\* most the max(1, maxResearchLoops)-th, whatever the reflections answer.
C31_LoopCountWithinBudget ==
  /\ state.researchLoopCount <= LoopBound
  /\ Count(nodeLog, "reflection") <= LoopBound
  /\ lastRoute = "webResearch" => state.researchLoopCount + 1 <= LoopBound
  /\ pc \in {"webResearch", "reflection"} => state.researchLoopCount + 1 <= LoopBound

\* a run with the largest budget whose reflections were all insufficient, the
\* last one routed to finalizeAnswer
C31_Witness ==
  /\ AfterReflection
  /\ ~state.isSufficient
  /\ BudgetOfRun = MaxLoops
  /\ state.researchLoopCount = MaxLoops
  /\ Count(nodeLog, "reflection") = MaxLoops
  /\ pc = "finalizeAnswer"

(***************************************************************************)
(* Termination of a run (under FairSpec).                                  *)
(***************************************************************************)
NoNodeFails == pc # "failed"

\* generateQuery has returned at least one query
QueriesGenerated == pc # "generateQuery" => state.queryList # <<>>

\* a reflection that is neither sufficient nor out of budget has left at least
\* one entry in followUpQueries
FollowUpsLeft ==
  (AfterReflection /\ ~state.isSufficient /\ state.researchLoopCount < BudgetOfRun) =>
    state.followUpQueries # <<>>

\* finalizeAnswer has been the last node to execute, the run is over and its
\* caller has been answered
RunTerminated ==
  /\ pc = "end"
  /\ Last(nodeLog) = "finalizeAnswer"
  /\ caller = "graph" \/ responded

\* C32: a run in which no node fails, generateQuery returns at least one query
\* and every reflection that is neither sufficient nor out of budget leaves a
\* follow-up query eventually executes finalizeAnswer and is then over for good.
C32_RunReachesFinalizeAnswer ==
  ([]NoNodeFails /\ []QueriesGenerated /\ []FollowUpsLeft) => <>[]RunTerminated

\* a run that was over after spending the largest budget on insufficient
\* reflections, each of which left a follow-up query
C32_Witness ==
  /\ RunTerminated
  /\ BudgetOfRun = MaxLoops
  /\ state.researchLoopCount = MaxLoops
  /\ ~state.isSufficient
  /\ state.queryList # <<>>
  /\ Len(state.followUpQueries) = MaxLoops * MaxFollowUps

(***************************************************************************)
(* Properties of the follow-up queries (under Spec).                       *)
(***************************************************************************)
\* the queries of the Send objects of a list, in order
QueriesOf(sends) == [i \in 1..Len(sends) |-> sends[i].args.searchQuery]

\* C33: a follow-up query is dispatched in one loop turn only, the one after
\* the reflection that returned it: the group a reflection dispatches holds the
\* follow-up queries of that reflection alone, and no query is emitted twice
\* in a run.
C33_FollowUpsDispatchedOnce ==
  /\ (AfterReflection /\ pc = "webResearch") =>
       \A i \in 1..Len(tasks) :
         tasks[i].args.searchQuery \in Range(FollowUps(state.researchLoopCount))
  /\ \A i, j \in 1..Len(emitted) :
       i # j => emitted[i].args.searchQuery # emitted[j].args.searchQuery

(***************************************************************************)
(* Properties of the order of the nodes (under Spec).                      *)
(***************************************************************************)
\* node has executed in this step, returning or throwing
Executes(node) == nodeLog' = Append(nodeLog, node)

\* generateQuery is the first node of the log and occurs once, every
\* reflection follows a webResearch, finalizeAnswer follows a reflection and is
\* the last node of the log
NodeOrder(nodes) ==
  \A k \in 1..Len(nodes) :
    /\ (nodes[k] = "generateQuery") <=> (k = 1)
    /\ nodes[k] = "reflection" => nodes[k - 1] = "webResearch"
    /\ nodes[k] = "finalizeAnswer" => nodes[k - 1] = "reflection" /\ k = Len(nodes)

\* C34: generateQuery executes once and first; reflection executes only when
\* a fan-out group of webResearch tasks has completed and been joined;
\* finalizeAnswer executes at most once, directly after a reflection that was
\* routed to finalizeAnswer; no node executes after finalizeAnswer.
C34_NodesInGraphOrder ==
  [][/\ NodeOrder(nodeLog')
     /\ Executes("reflection") =>
          /\ tasks # <<>>
          /\ AllTasksCompleted
          /\ Len(state.searchQuery) = Len(emitted)
     /\ Executes("finalizeAnswer") =>
          /\ lastRoute = "finalizeAnswer"
          /\ ShouldFinalize(state, configuration)
     /\ (nodeLog # <<>> /\ Last(nodeLog) = "finalizeAnswer") => nodeLog' = nodeLog]_vars

\* a run of two loops has ended and its route has answered
C34_Witness ==
  /\ pc = "end"
  /\ responded
  /\ Count(nodeLog, "reflection") = 2
  /\ Count(nodeLog, "finalizeAnswer") = 1
  /\ Count(nodeLog, "generateQuery") = 1
  /\ Count(nodeLog, "webResearch") = 3

(***************************************************************************)
(* Properties of the short URLs across a run (under Spec).                 *)
(***************************************************************************)
\* the sources task i of the current group returned, none while it runs
SourcesOfTask(i) ==
  IF IsSome(taskResult[i]) THEN Contribution(i, "sourcesGathered") ELSE <<>>

\* no source of list a carries the short URL of a source of list b
NoSharedShortUrl(a, b) ==
  \A k \in 1..Len(a), l \in 1..Len(b) : a[k].shortUrl # b[l].shortUrl

\* C35: short URLs minted in different webResearch executions of a run are
\* never equal: those of a task differ from those of its siblings and from
\* those of every earlier group, whose sources the state holds while the group
\* runs; a short URL among the sources gathered names one batch id and stands
\* for one original URL; and prefix + id + "-" + index is different for
\* different pairs of id and index.
C35_ShortUrlNamesOneBatchAndUrl ==
  /\ pc = "webResearch" =>
       \A i \in 1..Len(tasks) :
         /\ NoSharedShortUrl(SourcesOfTask(i), state.sourcesGathered)
         /\ \A j \in 1..Len(tasks) :
              i # j => NoSharedShortUrl(SourcesOfTask(i), SourcesOfTask(j))
         /\ \A k \in 1..Len(SourcesOfTask(i)), id \in 0..Len(emitted) :
              IsShortUrlOfBatch(SourcesOfTask(i)[k].shortUrl, id) <=> (id = tasks[i].args.id)
  /\ \A k, l \in 1..Len(state.sourcesGathered) :
       state.sourcesGathered[k].shortUrl = state.sourcesGathered[l].shortUrl =>
         state.sourcesGathered[k].value = state.sourcesGathered[l].value
  /\ pc = "generateQuery" =>
       \A id1, id2, idx1, idx2 \in 0..MaxDistinctChunks :
         ShortUrl(id1, idx1) = ShortUrl(id2, idx2) => (id1 = id2 /\ idx1 = idx2)

\* a task of the second group has found the page a task of the first group
\* found, and a sibling of that task a source as well
C35_Witness ==
  /\ pc = "webResearch"
  /\ state.researchLoopCount = 1
  /\ \E i \in 1..Len(tasks) :
       /\ SourcesOfTask(i) # <<>>
       /\ \E k \in 1..Len(state.sourcesGathered) :
            /\ state.sourcesGathered[k].value = SourcesOfTask(i)[1].value
            /\ state.sourcesGathered[k].shortUrl # SourcesOfTask(i)[1].shortUrl
  /\ Len(state.sourcesGathered) > 1

(***************************************************************************)
(* Properties of the sources finalizeAnswer returns (under SpecFinalize).  *)
(***************************************************************************)
\* the answer text when the loop of finalizeAnswer comes to the k-th gathered
\* source, content being the text the model returned
TextAtSource(sources, k, content) ==
  FinalizeLoop(SubSeq(sources, 1, k - 1),
               [finalContent |-> content, uniqueSources |-> <<>>, seenUrls |-> {}]).finalContent

\* the sources the step has added to sourcesGathered
ReturnedSources ==
  SubSeq(state'.sourcesGathered, Len(state.sourcesGathered) + 1, Len(state'.sourcesGathered))

\* C36: finalizeAnswer returns a gathered source only if its short URL occurs
\* in the answer text when the source is processed; a source whose short URL
\* the answer does not hold is not returned; and the final answer text holds
\* the short URL of no gathered source.
C36_OnlyCitedSourcesNoShortUrlLeft ==
  [][FinalizeAnswerStep =>
       \A content \in AnswerContents(state.sourcesGathered) :
         state' = ApplyUpdate(state, finalizeAnswer(state, content)) =>
           /\ \A r \in 1..Len(ReturnedSources) :
                \E k \in 1..Len(state.sourcesGathered) :
                  /\ state.sourcesGathered[k] = ReturnedSources[r]
                  /\ Includes(TextAtSource(state.sourcesGathered, k, content),
                              ReturnedSources[r].shortUrl)
           /\ \A k \in 1..Len(state.sourcesGathered) :
                ~Includes(content, state.sourcesGathered[k].shortUrl) =>
                  state.sourcesGathered[k] \notin Range(ReturnedSources)
           /\ \A k \in 1..Len(state.sourcesGathered) :
                ~Includes(Last(state'.messages).content,
                          state.sourcesGathered[k].shortUrl)]_vars

=============================================================================
